---- MODULE Spec2Model ----
(***************************************************************************)
(* staticsync: keeps declared pairs of files synchronised by copying the   *)
(* file with the newer modification time over the older one.               *)
(*                                                                         *)
(* The model starts where main() has obtained a validated configuration    *)
(* from setup() and follows main's loop, sync's loop over the entries and  *)
(* the I/O calls of one entry one call at a time, so that a failure or a   *)
(* kill can fall between any two of them.  Rust's 0-based indices newest   *)
(* and oldest are 1-based here (path[1], path[2]).  Access times are set   *)
(* by the program but never read by it and are not part of the state.      *)
(***************************************************************************)
EXTENDS Integers, Sequences, FiniteSets, TLC

\* ---- bounds of the model ----
MaxLen == 2      \* longest file, in bytes
MaxTime == 2     \* the files start with modification times 1..MaxTime
MaxBuf == 2      \* buffer sizes given with --size are 0..MaxBuf
MaxPairs == 2    \* longest "files" list of the configuration

Files == {"/a", "/b", "/c"}
\* the program never looks at the value of a byte, only at the digest of the
\* bytes it read: one byte value is enough, files differ in their length
Bytes == {1}
Contents == UNION {[1..n -> Bytes] : n \in 0..MaxLen}
\* times the files may start with; times a file may get: a copy may be made
\* at any of them or later than all of them
StartTimes == 1..MaxTime
Times == 1..(MaxTime + 1)
BufferSizes == 0..MaxBuf
\* entries that pass setup's validation: two distinct existing files. sync
\* treats the two sides alike and every file alike, so each pair is listed
\* one way round and two pairs stand for the lists of the model: an entry
\* listed twice, and two entries that share a file; either side may be the
\* newer one
Entries == {<<"/a", "/b">>, <<"/a", "/c">>}
FileLists == UNION {[1..n -> Entries] : n \in 0..MaxPairs}

\* paths a configuration may name besides the files: a relative path, a
\* directory, and a path at which nothing exists
RelativePaths == {"rel"}
Directories == {"/dir"}
Missing == {"/gone"}
AllPaths == Files \cup RelativePaths \cup Directories \cup Missing

\* Path::is_absolute, Path::is_dir, Path::exists
is_absolute(p) == p \notin RelativePaths
is_dir(p) == p \in Directories
exists(p) == p \in Files \cup Directories

\* entries a configuration file may hold: any two paths, or one path only
\* (of a longer entry setup and sync take the first two).  Two existing
\* files are written one way round, as in Entries.
RawEntries ==
    Entries
    \cup {e \in AllPaths \X AllPaths :
            ~(e[1] \in Files /\ e[2] \in Files /\ e[1] # e[2])}
    \cup {<<p>> : p \in AllPaths}
RawLists == UNION {[1..n -> RawEntries] : n \in 0..MaxPairs}

VARIABLES
    content,        \* content[f]: the bytes of file f
    mtime,          \* mtime[f]: the modification time of file f
    files,          \* config "files": the list of entries
    buffer_size,    \* --size
    once,           \* --once
    pc,             \* where main/sync stands
    i,              \* index of the entry the for loop of sync is at
    ftime,          \* sync's ftime: the two modification times read
    decision,       \* history: outcome of the entry completed last, None
                    \* while an entry is being hashed, copied or retimed
    interrupted,    \* history: the entry whose copy completed but whose
                    \* timestamp was never set, with the bytes copied
    torn            \* history: the entry whose copy failed at the last stop
                    \* after writing part of the older file, with the
                    \* source file and its bytes

vars == <<content, mtime, files, buffer_size, once, pc, i, ftime, decision,
          interrupted, torn>>

Min(a, b) == IF a < b THEN a ELSE b

\* ---- calculate_hash ----

\* file.read(&mut buf): the number of bytes one read may return when the
\* buffer holds buflen bytes and remaining bytes are left before end-of-file.
\* 0 at end-of-file or for an empty buffer; otherwise at least one byte and
\* possibly fewer than asked for (std::io::Read allows short reads).
ReadReturns(buflen, remaining) ==
    IF buflen = 0 \/ remaining = 0 THEN {0} ELSE 1..Min(buflen, remaining)

\* Sha1 of the bytes given to hasher.input, in order.  SHA-1 has no collision
\* among the inputs of the model: the digest is the tagged input.
Sha1(fed) == <<"sha1", fed>>

\* variant: the hasher is given the whole buffer, not the n bytes read
RECURSIVE HashLoop_WholeBuffer(_, _, _, _)
HashLoop_WholeBuffer(bufsize, data, pos, fed) ==
    UNION { LET fed2 == fed \o SubSeq(data, pos + 1, pos + n)
                            \o [k \in 1..(bufsize - n) |-> 0]
            IN  IF n = 0 \/ n < bufsize
                THEN {fed2}
                ELSE HashLoop_WholeBuffer(bufsize, data, pos + n, fed2)
          : n \in ReadReturns(bufsize, Len(data) - pos) }

\* the loop of calculate_hash from offset pos with fed already hashed: the
\* set of byte sequences the hasher may have received when the loop breaks
RECURSIVE HashLoop(_, _, _, _)
HashLoop(bufsize, data, pos, fed) ==
    UNION { LET fed2 == fed \o SubSeq(data, pos + 1, pos + n)
            IN  IF n = 0 \/ n < bufsize
                THEN {fed2}
                ELSE HashLoop(bufsize, data, pos + n, fed2)
          : n \in ReadReturns(bufsize, Len(data) - pos) }

\* the digests calculate_hash may return for a file holding data
calculate_hash(bufsize, data) ==
    {Sha1(fed) : fed \in HashLoop(bufsize, data, 0, <<>>)}

\* ---- the calls sync makes on the file system ----

\* variant: a comparison that never answers Equal
Cmp_NeverEqual(ft) == IF ft[1] >= ft[2] THEN "Greater" ELSE "Less"

\* ftime[0].cmp(&ftime[1])
Cmp(ft) == IF ft[1] > ft[2] THEN "Greater"
           ELSE IF ft[1] < ft[2] THEN "Less" ELSE "Equal"

\* variant: the two indices the wrong way round
NewestOldest_Swapped(ft) == IF Cmp(ft) = "Greater" THEN <<2, 1>> ELSE <<1, 2>>

\* (newest, oldest) of sync, as indices 1..2 into the entry; sync only uses
\* it when the comparison is not Equal
NewestOldest(ft) == IF Cmp(ft) = "Greater" THEN <<1, 2>> ELSE <<2, 1>>

\* variant: a copy in the wrong direction
copy_Reversed(c, from, to) == [c EXCEPT ![from] = c[to]]

\* std::fs::copy(from, to), succeeding: to holds from's bytes
copy(c, from, to) == [c EXCEPT ![to] = c[from]]

\* what a failed copy may leave in to: it is truncated when opened and may
\* have received a proper prefix of the source
PartialWrites(data) == {SubSeq(data, 1, k) : k \in 0..(Len(data) - 1)} \cup {<<>>}

\* variant: a timestamp update that leaves the time the copy stamped
set_file_times_Skipped(m, p, t) == m

\* filetime::set_file_times(p, atime, t), succeeding
set_file_times(m, p, t) == [m EXCEPT ![p] = t]

Running == {"sync", "for", "hash", "copy", "set_times_copy", "set_times_same",
            "once", "sleep"}
Stopped == {"exit", "panic", "killed"}
\* main before setup has returned; setup ended in error(..), which exits
\* with status 1; setup panicked
Unstarted == {"setup", "error", "setup_panic"}

TypeOK ==
    /\ content \in [Files -> Contents]
    /\ mtime \in [Files -> Times]
    /\ files \in FileLists \cup RawLists
    /\ buffer_size \in BufferSizes
    /\ once \in BOOLEAN
    /\ pc \in Running \cup Stopped \cup Unstarted
    /\ i \in 0..(MaxPairs + 1)
    /\ ftime \in (Times \X Times) \cup {<<0, 0>>}
    /\ decision \in {"None", "Unchanged", "NoopSameContent", "Propagated"}
    /\ interrupted \in {<<>>} \cup ((1..MaxPairs) \X Contents)
    /\ torn \in {<<>>} \cup ((1..MaxPairs) \X Files \X Contents)

Init ==
    /\ content \in [Files -> Contents]
    /\ mtime \in [Files -> StartTimes]
    /\ files \in FileLists
    /\ buffer_size \in BufferSizes
    /\ once \in BOOLEAN
    /\ pc = "sync"
    /\ i = 0
    /\ ftime = <<0, 0>>
    /\ decision = "None"
    /\ interrupted = <<>>
    /\ torn = <<>>

config == <<files, buffer_size, once>>
fs == <<content, mtime>>

\* the entry the for loop is at and its two paths
path == files[i]
newest == path[NewestOldest(ftime)[1]]
oldest == path[NewestOldest(ftime)[2]]
\* variant: the time given to set_file_times is the older file's own
ftime_newest_Oldest == ftime[NewestOldest(ftime)[2]]

\* ftime[newest]
ftime_newest == ftime[NewestOldest(ftime)[1]]

\* history: entry i has been reconciled to its end
Settled == IF interrupted # <<>> /\ interrupted[1] = i THEN <<>> ELSE interrupted

\* history: entry i has been reconciled to its end
Mended == IF torn # <<>> /\ torn[1] = i THEN <<>> ELSE torn

\* history: the process stops at this point; the copy of entry i is complete
\* and its timestamp unset exactly when it stops before line 221 has run
Stopping == IF pc = "set_times_copy" THEN <<i, content[newest]>> ELSE <<>>

\* the process ends (exit, panic or kill): its locals are gone
Stop(how) ==
    /\ pc' = how
    /\ i' = 0
    /\ ftime' = <<0, 0>>
    /\ decision' = "None"
    /\ interrupted' = Stopping

\* main: loop { sync(...) -- sync reads the list and enters its for loop
SyncBegin ==
    /\ pc = "sync"
    /\ pc' = "for"
    /\ i' = 1
    /\ UNCHANGED <<fs, config, ftime, decision, interrupted, torn>>

\* sync: the for loop has run out of entries; sync returns to main
SyncEnd ==
    /\ pc = "for"
    /\ i > Len(files)
    /\ pc' = "once"
    /\ i' = 0
    /\ UNCHANGED <<fs, config, ftime, decision, interrupted, torn>>

\* sync: metadata(x).unwrap() panics when a stat fails
StatFail ==
    /\ pc = "for"
    /\ i <= Len(files)
    /\ Stop("panic")
    /\ torn' = <<>>
    /\ UNCHANGED <<fs, config>>

\* sync: both stats succeed, the times are equal: continue
StatEqual ==
    /\ pc = "for"
    /\ i <= Len(files)
    /\ Cmp(<<mtime[path[1]], mtime[path[2]]>>) = "Equal"
    /\ i' = i + 1
    /\ decision' = "Unchanged"
    /\ interrupted' = Settled
    /\ torn' = Mended
    /\ UNCHANGED <<fs, config, pc, ftime>>

\* sync: both stats succeed, the times differ: go on to hash
StatDiffer ==
    /\ pc = "for"
    /\ i <= Len(files)
    /\ Cmp(<<mtime[path[1]], mtime[path[2]]>>) # "Equal"
    /\ ftime' = <<mtime[path[1]], mtime[path[2]]>>
    /\ pc' = "hash"
    /\ decision' = "None"
    /\ UNCHANGED <<fs, config, i, interrupted, torn>>

\* sync: calculate_hash(..).unwrap() panics when an open or a read fails
HashFail ==
    /\ pc = "hash"
    /\ Stop("panic")
    /\ torn' = <<>>
    /\ UNCHANGED <<fs, config>>

\* sync: both files are hashed and the digests compared
Hash ==
    /\ pc = "hash"
    /\ \E h0 \in calculate_hash(buffer_size, content[path[1]]),
          h1 \in calculate_hash(buffer_size, content[path[2]]) :
            pc' = IF h0 # h1 THEN "copy" ELSE "set_times_same"
    /\ UNCHANGED <<fs, config, i, ftime, decision, interrupted, torn>>

\* sync: copy(path[newest], path[oldest]) succeeds; the write stamps the
\* file with the time of the copy
Copy ==
    /\ pc = "copy"
    /\ content' = copy(content, newest, oldest)
    /\ \E now \in Times : mtime' = [mtime EXCEPT ![oldest] = now]
    /\ pc' = "set_times_copy"
    /\ UNCHANGED <<config, i, ftime, decision, interrupted, torn>>

\* variant: the result of a failed copy is dropped and sync goes on
CopyFail_Ignored ==
    /\ pc = "copy"
    /\ \/ /\ UNCHANGED fs
          /\ torn' = <<>>
       \/ /\ \E part \in PartialWrites(content[newest]) :
                content' = [content EXCEPT ![oldest] = part]
          /\ \E now \in Times : mtime' = [mtime EXCEPT ![oldest] = now]
          /\ torn' = <<i, newest, content[newest]>>
    /\ pc' = "set_times_copy"
    /\ UNCHANGED <<config, i, ftime, decision, interrupted>>

\* sync: copy(..).expect(..) panics; the older file may be left untouched
\* (it could not be opened) or truncated to part of the source
CopyFail ==
    /\ pc = "copy"
    /\ \/ /\ UNCHANGED fs
          /\ torn' = <<>>
       \/ /\ \E part \in PartialWrites(content[newest]) :
                content' = [content EXCEPT ![oldest] = part]
          /\ \E now \in Times : mtime' = [mtime EXCEPT ![oldest] = now]
          /\ torn' = <<i, newest, content[newest]>>
    /\ Stop("panic")
    /\ UNCHANGED config

\* sync: set_file_times after the copy
SetTimesCopy ==
    /\ pc = "set_times_copy"
    /\ mtime' = set_file_times(mtime, oldest, ftime_newest)
    /\ decision' = "Propagated"
    /\ pc' = "for"
    /\ i' = i + 1
    /\ ftime' = <<0, 0>>
    /\ interrupted' = Settled
    /\ torn' = Mended
    /\ UNCHANGED <<content, config>>

\* variant: files of equal digest are left with their different times
SetTimesSame_NoUpdate ==
    /\ pc = "set_times_same"
    /\ decision' = "NoopSameContent"
    /\ pc' = "for"
    /\ i' = i + 1
    /\ ftime' = <<0, 0>>
    /\ interrupted' = Settled
    /\ torn' = Mended
    /\ UNCHANGED <<fs, config>>

\* sync: set_file_times when the digests are equal
SetTimesSame ==
    /\ pc = "set_times_same"
    /\ mtime' = set_file_times(mtime, oldest, ftime_newest)
    /\ decision' = "NoopSameContent"
    /\ pc' = "for"
    /\ i' = i + 1
    /\ ftime' = <<0, 0>>
    /\ interrupted' = Settled
    /\ torn' = Mended
    /\ UNCHANGED <<content, config>>

\* sync: set_file_times(..).expect(..) panics
SetTimesFail ==
    /\ pc \in {"set_times_copy", "set_times_same"}
    /\ Stop("panic")
    /\ torn' = <<>>
    /\ UNCHANGED <<fs, config>>

\* variant: the run-once flag does not leave the loop
OnceBreak_Sleeps ==
    /\ pc = "once"
    /\ once
    /\ pc' = "sleep"
    /\ UNCHANGED <<fs, config, i, ftime, decision, interrupted, torn>>

\* main: if once { break }
OnceBreak ==
    /\ pc = "once"
    /\ once
    /\ Stop("exit")
    /\ torn' = <<>>
    /\ UNCHANGED <<fs, config>>

OnceContinue ==
    /\ pc = "once"
    /\ ~once
    /\ pc' = "sleep"
    /\ UNCHANGED <<fs, config, i, ftime, decision, interrupted, torn>>

\* main: sleep(sleep_time) returns and the loop starts over
Sleep ==
    /\ pc = "sleep"
    /\ pc' = "sync"
    /\ UNCHANGED <<fs, config, i, ftime, decision, interrupted, torn>>

\* the process is killed from outside
Kill ==
    /\ pc \in Running
    /\ Stop("killed")
    /\ torn' = <<>>
    /\ UNCHANGED <<fs, config>>

\* the program is started again with the same command line and configuration
Restart ==
    /\ pc \in Stopped
    /\ pc' = "sync"
    /\ UNCHANGED <<fs, config, i, ftime, decision, interrupted, torn>>

\* ---- sync as a function: one whole call without a failure ----

\* the body of sync's for loop for one entry e on the file system st: the
\* file systems it may leave (one per outcome of the two hashes)
sync_entry(st, e, bufsize) ==
    LET ft == <<st.mtime[e[1]], st.mtime[e[2]]>>
        new == e[NewestOldest(ft)[1]]
        old == e[NewestOldest(ft)[2]]
        retimed == set_file_times(st.mtime, old, ft[NewestOldest(ft)[1]])
    IN  IF Cmp(ft) = "Equal"
        THEN {st}
        ELSE { IF h[1] # h[2]
               THEN [content |-> copy(st.content, new, old), mtime |-> retimed]
               ELSE [content |-> st.content, mtime |-> retimed]
             : h \in calculate_hash(bufsize, st.content[e[1]])
                     \X calculate_hash(bufsize, st.content[e[2]]) }

\* sync over the entries list[k..]: the file systems one call may leave
RECURSIVE sync(_, _, _, _)
sync(st, list, k, bufsize) ==
    IF k > Len(list)
    THEN {st}
    ELSE UNION {sync(st2, list, k + 1, bufsize) : st2 \in sync_entry(st, list[k], bufsize)}

Next ==
    \/ SyncBegin
    \/ SyncEnd
    \/ StatFail
    \/ StatEqual
    \/ StatDiffer
    \/ HashFail
    \/ Hash
    \/ Copy
    \/ CopyFail
    \/ SetTimesCopy
    \/ SetTimesSame
    \/ SetTimesFail
    \/ OnceBreak
    \/ OnceContinue
    \/ Sleep
    \/ Kill
    \/ Restart

Spec == Init /\ [][Next]_vars

\* ---- setup: validation of the configuration ----

\* variant: setup without the check for a duplicated path
ValidateEntry_NoSameCheck(e) ==
    IF ~is_absolute(e[1]) THEN "abs_error"
    ELSE IF Len(e) < 2 THEN "index_panic"
    ELSE IF ~is_absolute(e[2]) THEN "abs_error"
    ELSE IF is_dir(e[1]) THEN "dir_error"
    ELSE IF is_dir(e[2]) THEN "dir_error"
    ELSE IF ~exists(e[1]) THEN "exs_error"
    ELSE IF ~exists(e[2]) THEN "exs_error"
    ELSE "ok"

\* setup: the checks made on one entry, in the order of the code.  path[1]
\* of an entry of one path is an index out of bounds.
ValidateEntry(e) ==
    IF ~is_absolute(e[1]) THEN "abs_error"
    ELSE IF Len(e) < 2 THEN "index_panic"
    ELSE IF ~is_absolute(e[2]) THEN "abs_error"
    ELSE IF is_dir(e[1]) THEN "dir_error"
    ELSE IF is_dir(e[2]) THEN "dir_error"
    ELSE IF e[1] = e[2] THEN "same_error"
    ELSE IF ~exists(e[1]) THEN "exs_error"
    ELSE IF ~exists(e[2]) THEN "exs_error"
    ELSE "ok"

\* setup: for entry in files { .. }, from entry k on: the first entry that
\* fails a check ends the loop
RECURSIVE Validate(_, _)
Validate(list, k) ==
    IF k > Len(list) THEN "ok"
    ELSE IF ValidateEntry(list[k]) # "ok" THEN ValidateEntry(list[k])
    ELSE Validate(list, k + 1)

\* main: match setup() { Ok(v) => v, Err(e) => error(..) }
Setup ==
    /\ pc = "setup"
    /\ pc' = CASE Validate(files, 1) = "ok" -> "sync"
               [] Validate(files, 1) = "index_panic" -> "setup_panic"
               [] OTHER -> "error"
    /\ UNCHANGED <<fs, config, i, ftime, decision, interrupted, torn>>

\* the process is started with any configuration file, on a file system
\* where an entry of equal times, one of equal content and one that differs
\* can be listed
InitSetup ==
    /\ content = [f \in Files |-> IF f = "/c" THEN <<1>> ELSE <<>>]
    /\ mtime = [f \in Files |-> IF f = "/a" THEN 1 ELSE MaxTime]
    /\ files \in RawLists
    /\ buffer_size \in BufferSizes
    /\ once \in BOOLEAN
    /\ pc = "setup"
    /\ i = 0
    /\ ftime = <<0, 0>>
    /\ decision = "None"
    /\ interrupted = <<>>
    /\ torn = <<>>

NextSetup ==
    \/ Setup
    \/ Next

SpecSetup == InitSetup /\ [][NextSetup]_vars

\* ---- the loop of main when nothing fails and nothing interferes ----

\* the process runs without --once
InitLive ==
    /\ content \in [Files -> Contents]
    /\ mtime \in [Files -> StartTimes]
    /\ files \in FileLists
    /\ buffer_size \in BufferSizes
    /\ once = FALSE
    /\ pc = "sync"
    /\ i = 0
    /\ ftime = <<0, 0>>
    /\ decision = "None"
    /\ interrupted = <<>>
    /\ torn = <<>>

\* every call of sync returns Ok and the process is not killed
NextLive ==
    \/ SyncBegin
    \/ SyncEnd
    \/ StatEqual
    \/ StatDiffer
    \/ Hash
    \/ Copy
    \/ SetTimesCopy
    \/ SetTimesSame
    \/ OnceContinue
    \/ Sleep

\* main is one thread: the step it stands at is taken (every call returns,
\* the sleep ends)
SpecLive == InitLive /\ [][NextLive]_vars /\ WF_vars(NextLive)

\* ---- properties ----

\* the two files of an entry, whichever way round it is written
PairOf(e) == {e[1], e[2]}

\* the entry sync completed last when it stands at entry i with a decision
PrevEntry == IF i > 1 THEN files[i - 1] ELSE files[Len(files)]

\* sync stands at the top of the for loop with an entry left
AtEntry == pc = "for" /\ i <= Len(files)

\* this step completes the reconciliation of entry i
Completes == pc \in {"for", "set_times_copy", "set_times_same"} /\ pc' = "for" /\ i' = i + 1

\* the sides of entry i by the times sync read: the one read as later, the
\* one read as earlier
ReadNewer == IF ftime[1] > ftime[2] THEN path[1] ELSE path[2]
ReadOlder == IF ftime[1] > ftime[2] THEN path[2] ELSE path[1]

\* C1: when the copy branch of an entry completes, both files hold the same
\* bytes and the same modification time, and a reconciliation of the same
\* pair right after it does not hash, changes no file and ends as Unchanged.
C1_PropagatedThenUnchanged ==
    [][ /\ (pc = "set_times_copy" /\ pc' = "for")
            => /\ content'[path[1]] = content'[path[2]]
               /\ mtime'[path[1]] = mtime'[path[2]]
        /\ (AtEntry /\ decision = "Propagated" /\ PairOf(path) = PairOf(PrevEntry))
            => /\ pc' # "hash"
               /\ fs' = fs
               /\ (pc' = "for" => decision' = "Unchanged")
      ]_vars

\* C1 witness: the same pair is listed twice, its first reconciliation has
\* copied and left both files equal, the second is about to run
C1_Witness ==
    /\ AtEntry /\ i = 2 /\ decision = "Propagated"
    /\ PairOf(files[1]) = PairOf(files[2])
    /\ content[path[1]] = content[path[2]]
    /\ mtime[path[1]] = mtime[path[2]]

\* C2: with different times and identical bytes no copy is made, the bytes
\* stay, the older file gets the newer file's time, and a reconciliation of
\* the same pair right after it takes the equal-time path.
C2_SameContentRetimesOnly ==
    [][ /\ (pc = "hash" /\ content[path[1]] = content[path[2]])
            => pc' # "copy"
        /\ (pc = "set_times_same" /\ pc' = "for")
            => /\ content' = content
               /\ mtime'[ReadOlder] = mtime[ReadNewer]
               /\ mtime'[path[1]] = mtime'[path[2]]
        /\ (AtEntry /\ decision = "NoopSameContent" /\ PairOf(path) = PairOf(PrevEntry))
            => /\ pc' # "hash"
               /\ fs' = fs
      ]_vars

\* C3: with equal times the entry ends as Unchanged whatever the bytes are:
\* nothing is hashed, copied or retimed and no file changes.
C3_EqualTimesUnchanged ==
    [][ (AtEntry /\ mtime[path[1]] = mtime[path[2]])
            => /\ fs' = fs
               /\ pc' \in {"for", "panic", "killed"}
               /\ (pc' = "for" => decision' = "Unchanged" /\ i' = i + 1)
      ]_vars

\* C3 witness: an entry with equal times and different bytes has ended as
\* Unchanged
C3_Witness ==
    /\ pc = "for" /\ i = 2 /\ decision = "Unchanged"
    /\ mtime[files[1][1]] = mtime[files[1][2]]
    /\ content[files[1][1]] # content[files[1][2]]

\* C4: propagation goes from the side read with the strictly greater time to
\* the other side: the copy gives the other side exactly the source's bytes
\* and leaves the source alone, and the timestamp update gives it the
\* source's time as read at the start, not the time of the copy.
C4_NewerToOlder ==
    [][ /\ (pc \in {"hash", "copy"})
            => ftime = <<mtime[path[1]], mtime[path[2]]>>
        /\ (pc = "copy" /\ pc' = "set_times_copy")
            => /\ mtime[ReadNewer] > mtime[ReadOlder]
               /\ content'[ReadOlder] = content[ReadNewer]
               /\ content'[ReadNewer] = content[ReadNewer]
        /\ (pc = "set_times_copy" /\ pc' = "for")
            => /\ mtime[ReadNewer] = IF ftime[1] > ftime[2] THEN ftime[1] ELSE ftime[2]
               /\ mtime'[ReadOlder] = mtime[ReadNewer]
               /\ mtime'[ReadNewer] = mtime[ReadNewer]
      ]_vars

\* C4 witness: sideB is the newer one, the copy has made sideA's bytes equal
\* to sideB's and stamped sideA with a time that is not sideB's
C4_Witness ==
    /\ pc = "set_times_copy"
    /\ ftime[2] > ftime[1]
    /\ content[path[1]] = content[path[2]]
    /\ mtime[path[1]] # ftime[2]

\* C5: a step changes the bytes or the time of a file only if it is the
\* copy or the timestamp update of the current entry and the file is the
\* entry's older path; every other file is left as it was.
C5_OnlyOlderPathWritten ==
    [][ \A f \in Files :
            (content'[f] # content[f] \/ mtime'[f] # mtime[f])
                => /\ pc \in {"copy", "set_times_copy", "set_times_same"}
                   /\ f = ReadOlder
      ]_vars

\* C5 witness: a copy has completed and changed the older file, the third
\* file is not part of the entry
C5_Witness ==
    /\ pc = "for" /\ i = 2 /\ decision = "Propagated"
    /\ \E f \in Files : f \notin PairOf(files[1])

\* C6: a failure while reconciling an entry never terminates the process.
C6_FailureNotFatal == pc # "panic"

\* C7: calculate_hash gives the same digest for the same bytes under every
\* buffer size, so the digests of two files are equal exactly when their
\* bytes are.
C7_BufferSizeIndependent ==
    pc = "hash" =>
        /\ \A f \in PairOf(path), bs \in BufferSizes :
                calculate_hash(buffer_size, content[f]) = calculate_hash(bs, content[f])
        /\ \A h0 \in calculate_hash(buffer_size, content[path[1]]),
              h1 \in calculate_hash(buffer_size, content[path[2]]) :
                (h0 = h1) <=> (content[path[1]] = content[path[2]])

\* C8: with a buffer of at least one byte the read loop of calculate_hash
\* runs to end-of-file, so the digest is that of all the bytes of the file
\* even when a read returns fewer bytes than the buffer holds.
C8_HashCoversWholeFile ==
    (pc = "hash" /\ buffer_size >= 1) =>
        \A f \in PairOf(path) :
            calculate_hash(buffer_size, content[f]) = {Sha1(content[f])}

\* the list with its entries in the order sigma
Permuted(list, sigma) == [k \in 1..Len(list) |-> list[sigma[k]]]

\* C9: every permutation of the list of entries leaves the same file system
\* at the end of a tick.
C9_OrderIrrelevant ==
    pc = "sync" =>
        \A sigma \in Permutations(1..Len(files)) :
            sync([content |-> content, mtime |-> mtime], Permuted(files, sigma), 1, buffer_size)
              = sync([content |-> content, mtime |-> mtime], files, 1, buffer_size)

\* C10: after a stop between the copy and the timestamp update of an entry,
\* the next reconciliation of that entry makes no copy and leaves both files
\* with the bytes that were copied and with equal times.
C10_InterruptedCycleHeals ==
    [][ (Completes /\ interrupted # <<>> /\ interrupted[1] = i)
            => /\ decision' # "Propagated"
               /\ content'[path[1]] = interrupted[2]
               /\ content'[path[2]] = interrupted[2]
               /\ mtime'[path[1]] = mtime'[path[2]]
      ]_vars

\* C11: after a copy that failed with the older file partly written, the run
\* that follows never overwrites the bytes of the original newer file, and
\* when it completes the reconciliation of that entry both files hold them.
C11_FailedCopyLosesNothing ==
    [][ torn # <<>>
            => /\ content'[torn[2]] = torn[3]
               /\ (Completes /\ torn[1] = i)
                    => /\ content'[path[1]] = torn[3]
                       /\ content'[path[2]] = torn[3]
      ]_vars

\* C12: with the run-once flag a run of main makes one pass of sync and then
\* exits without sleeping; without the flag main never exits, every pass that
\* returns is followed by the sleep and the sleep by the next pass.
C12_OnceOrForever ==
    [][ /\ (pc = "once" /\ once)  => pc' \in {"exit", "killed"}
        /\ (pc = "once" /\ ~once) => pc' \in {"sleep", "killed"}
        /\ pc = "sleep" => pc' \in {"sync", "killed"}
        /\ pc' = "once" => (pc = "for" /\ i > Len(files))
        /\ pc' = "exit"  => (pc = "once" /\ once)
        /\ pc' = "sleep" => (pc = "once" /\ ~once)
        /\ pc' = "sync"  => (pc \in Stopped \/ (pc = "sleep" /\ ~once))
      ]_vars

\* the single pass of a run-once process is over and the process has exited
C12_Witness == pc = "exit" /\ once /\ Len(files) = MaxPairs

\* C13: calculate_hash of an empty file returns, whatever the buffer size,
\* and what it returns is the digest of the empty byte sequence.
C13_EmptyFileHash ==
    \A f \in Files :
        content[f] = <<>>
            => calculate_hash(buffer_size, content[f]) = {Sha1(<<>>)}

\* two empty files of an entry have been hashed with the largest buffer
C13_Witness ==
    /\ pc = "set_times_same"
    /\ buffer_size = MaxBuf
    /\ content[path[1]] = <<>>
    /\ content[path[2]] = <<>>

\* what C14 asks of an entry: two paths, absolute, distinct, existing, and
\* not directories
ValidPair(e) ==
    /\ Len(e) = 2
    /\ \A k \in 1..2 : is_absolute(e[k]) /\ exists(e[k]) /\ ~is_dir(e[k])
    /\ e[1] # e[2]

\* C14: setup hands the configuration to the sync loop only if every entry
\* names two absolute, distinct, existing paths that are not directories; a
\* list of two-path entries one of which breaks a condition ends in a
\* ConfigLoadError, after which nothing runs; sync only ever runs on a list
\* whose entries all meet the conditions.
C14_OnlyValidConfigurations ==
    [][ /\ (pc = "setup" /\ pc' = "sync")
            => \A k \in 1..Len(files) : ValidPair(files[k])
        /\ (/\ pc = "setup"
            /\ \A k \in 1..Len(files) : Len(files[k]) = 2
            /\ \E k \in 1..Len(files) : ~ValidPair(files[k]))
            => pc' = "error"
        /\ pc \notin {"error", "setup_panic"}
        /\ pc' \in Running => \A k \in 1..Len(files') : ValidPair(files'[k])
      ]_vars

\* setup has refused a configuration whose second entry names one path twice
C14_Witness ==
    /\ pc = "error"
    /\ Len(files) = 2
    /\ ValidPair(files[1])
    /\ Len(files[2]) = 2
    /\ files[2][1] = files[2][2]
    /\ files[2][1] \in Files

\* C15: in a reconciliation that propagates content the timestamp of the
\* older file is set only after the copy has completed, in a step of its
\* own: sync stands before the timestamp update only coming from a copy that
\* succeeded, the older file then holds the bytes of the newer one and the
\* newer file is as it was read, the update changes no bytes, and a copy
\* that failed is followed by no step of sync but the start of a new run.
C15_CopyThenRetime ==
    [][ /\ pc' = "set_times_copy"
            => /\ pc = "copy"
               /\ content' = copy(content, ReadNewer, ReadOlder)
        /\ pc = "set_times_copy"
            => /\ content[ReadOlder] = content[ReadNewer]
               /\ mtime[ReadNewer] = ftime_newest
               /\ content' = content
               /\ pc' \in {"for", "panic", "killed"}
               /\ mtime' # mtime
                    => (pc' = "for" /\ mtime'[ReadOlder] = mtime[ReadNewer])
        /\ (decision # "Propagated" /\ decision' = "Propagated")
            => pc = "set_times_copy"
        /\ (pc = "copy" /\ pc' # "set_times_copy") => pc' \in {"panic", "killed"}
        /\ pc \in {"panic", "killed"} => pc' = "sync"
      ]_vars

\* the copy towards the second path is done, its timestamp is not yet set
C15_Witness ==
    /\ pc = "set_times_copy"
    /\ ftime[1] > ftime[2]
    /\ content[path[2]] = content[path[1]]
    /\ content[path[2]] # <<>>
    /\ mtime[path[2]] # mtime[path[1]]

Max(a, b) == IF a > b THEN a ELSE b

\* the later of the two modification times the reconciliation of entry i
\* started from: the times sync read, which the step that reads them takes
\* from the two files
LaterAtStart ==
    IF pc = "for"
    THEN Max(mtime[path[1]], mtime[path[2]])
    ELSE Max(ftime[1], ftime[2])

\* C16: sync reads the two modification times as they are, and whenever the
\* reconciliation of an entry completes both its files have the later of
\* the two times read at its start and the time of every other file is as it
\* was: across a completed reconciliation no modification time decreases
\* and the later time of the pair is not lowered.
C16_BothGetLaterTime ==
    [][ /\ (pc = "for" /\ pc' = "hash")
            => ftime' = <<mtime[path[1]], mtime[path[2]]>>
        /\ Completes
            => /\ mtime'[path[1]] = LaterAtStart
               /\ mtime'[path[2]] = LaterAtStart
               /\ \A f \in Files \ PairOf(path) : mtime'[f] = mtime[f]
      ]_vars

\* an entry of equal content has been given the later time, which the
\* first path did not have when the program was started
C16_Witness ==
    /\ pc = "for"
    /\ i > 1
    /\ decision = "NoopSameContent"
    /\ mtime[files[i - 1][1]] = mtime[files[i - 1][2]]
    /\ mtime[files[i - 1][1]] = MaxTime + 1

\* every entry has equal modification times and sync is not in the middle
\* of hashing, copying or setting a time
Quiescent ==
    /\ \A k \in 1..Len(files) : mtime[files[k][1]] = mtime[files[k][2]]
    /\ pc \in {"sync", "for", "once", "sleep"}

\* C17: when no call fails and nobody else touches the files, the ticks of
\* main reach a state where every entry has equal modification times; from
\* then on no step hashes, copies or sets a time, and the files stay as
\* they are.
C17_Converges ==
    /\ <>[]Quiescent
    /\ [][Quiescent => (Quiescent' /\ fs' = fs)]_vars

\* a tick that ended with a propagation has left every entry, of a list of
\* two entries sharing a file, with equal times
C17_Witness ==
    /\ Quiescent
    /\ pc = "sleep"
    /\ decision = "Propagated"
    /\ Len(files) = 2
    /\ files[1] # files[2]
====
